---- MODULE Spec2Model ----
(***************************************************************************)
(* State-machine model of GraphQLTransportWs (src/graphql_transport_ws.ts) *)
(* one transport object on one socket: the completion guard, the listener  *)
(* registry, the single-slot handlers, the subscriptions, the outbound     *)
(* sender and the inbound message dispatcher.                              *)
(*                                                                         *)
(* Sender/SenderImpl (utils.ts), parseMessage (parse.ts) and the constants *)
(* (constants.ts) are imported by the source file but are not part of it;  *)
(* they are modelled from sections 4.1, 4.2 and 6 of the specification.    *)
(***************************************************************************)
EXTENDS Integers, Sequences, FiniteSets

\* ------------------------------------------------------------------ bounds
\* operations of the caller explored in one run (subscribe, the send operations,
\* listener registration and handler assignment)
MaxOps == 2
\* inbound socket messages explored in one run
MaxRecv == 2

\* --------------------------------------------------------------- constants
\* wire discriminants (MessageType, section 6 of the specification)
IdLessTypes == {"connection_init", "connection_ack", "ping", "pong"}
IdTypes == {"subscribe", "next", "error", "complete"}
MessageTypes == IdLessTypes \cup IdTypes

\* the event name each dispatcher entry gives its event
EventName == [connection_init |-> "connectioninit", connection_ack |-> "connectionack",
              ping |-> "ping", pong |-> "pong", subscribe |-> "subscribe",
              next |-> "next", error |-> "error", complete |-> "complete"]
UNKNOWN == "unknown"
EventNames == {EventName[t] : t \in MessageTypes}

\* identifiers subscribe() hands out: crypto.randomUUID() never repeats, the k-th
\* subscription gets identifier k
SubIds == 1 .. MaxOps
\* an identifier that no subscribe() call of this transport returned
ForeignId == MaxOps + 1
\* the callback sets a caller passes to subscribe() (every callback is optional)
CallbackSets == {{"next", "error", "complete"}, {}}

VARIABLES
  readyState,     \* socket.readyState
  established,    \* whether the socket has been open
  completedIds,   \* #completedIds, the blocklist of the dispatcher
  listeners,      \* #eventTarget: the registered listeners, in registration order
  closeListeners, \* subscriptions whose closeHandler is on the socket's "close"
  attached,       \* whether #messageHandler is on the socket's "message"
  slots,          \* event names whose single-slot handler (onping, ...) is assigned
  cbs,            \* per subscription, the callbacks its subscribe() call was given
  queue,          \* Sender: frames waiting for the socket to open
  sent,           \* frames given to socket.send, in order
  nOps,           \* operations of the caller so far
  nRecv,          \* inbound messages so far (numbers the messages)
  pending,        \* handler invocations that returned an unsettled promise
  invoked,        \* the handlers the last step invoked, in invocation order
  event,          \* the last step
  completeEvents, \* per identifier, the "complete" events dispatched
  onCompleteCalls, \* per subscription, the calls of its onComplete callback
  terminalHanded  \* per identifier, the Error/Complete frames handed to the Sender

vars == <<readyState, established, completedIds, listeners, closeListeners, attached, slots, cbs,
          queue, sent, nOps, nRecv, pending, invoked, event,
          completeEvents, onCompleteCalls, terminalHanded>>

senderVars == <<queue, sent>>
busVars == <<listeners, closeListeners, attached, slots, cbs>>
inboundVars == <<nRecv, pending, completeEvents, onCompleteCalls>>

Range(s) == {s[i] : i \in 1 .. Len(s)}
nSubs == Len(cbs)
KnownIds == DOMAIN cbs \cup {ForeignId}
AllIds == SubIds \cup {ForeignId}

\* ------------------------------------------------------------------ Sender
\* safeSend of the Sender: by socket.readyState, queue, transmit or drop the frame
SenderSend(frame) ==
  CASE readyState = "CONNECTING" ->
         /\ queue' = Append(queue, frame)
         /\ UNCHANGED sent
    [] readyState = "OPEN" ->
         /\ sent' = Append(sent, frame)
         /\ UNCHANGED queue
    [] OTHER ->
         UNCHANGED <<queue, sent>>

\* the disposer sender.subscribe() returns: takes the Subscribe frame of `id` out of
\* the queue when it has not been transmitted yet
Dispose(q, ids) ==
  SelectSeq(q, LAMBDA f : ~(f.type = "subscribe" /\ f.id \in ids))

Frame(type) == [type |-> type]
IdFrame(type, id) == [type |-> type, id |-> id]

\* the record of a send operation; the Sender returns without raising in every
\* socket state
SendEvent(op) == [op |-> op, raised |-> FALSE]
IdSendEvent(op, id) == [op |-> op, id |-> id, raised |-> FALSE]
TerminalEvent(op, id) ==
  [op |-> op, id |-> id, handed |-> id \notin completedIds, raised |-> FALSE]

\* one more operation of the caller
CallerOp ==
  /\ nOps < MaxOps
  /\ nOps' = nOps + 1
  /\ invoked' = <<>>

\* what a send operation leaves alone
SendFrame ==
  /\ CallerOp
  /\ UNCHANGED <<readyState, established, busVars, inboundVars>>

\* -------------------------------------------------- public send operations
connectionInit_ack ==
  /\ SendFrame
  /\ SenderSend(Frame("connection_ack"))
  /\ event' = SendEvent("connectionInit")
  /\ UNCHANGED <<completedIds, terminalHanded>>

connectionInit ==
  /\ SendFrame
  /\ SenderSend(Frame("connection_init"))
  /\ event' = SendEvent("connectionInit")
  /\ UNCHANGED <<completedIds, terminalHanded>>

connectionAck ==
  /\ SendFrame
  /\ SenderSend(Frame("connection_ack"))
  /\ event' = SendEvent("connectionAck")
  /\ UNCHANGED <<completedIds, terminalHanded>>

ping ==
  /\ SendFrame
  /\ SenderSend(Frame("ping"))
  /\ event' = SendEvent("ping")
  /\ UNCHANGED <<completedIds, terminalHanded>>

pong ==
  /\ SendFrame
  /\ SenderSend(Frame("pong"))
  /\ event' = SendEvent("pong")
  /\ UNCHANGED <<completedIds, terminalHanded>>

next_direct(id) ==
  /\ SendFrame
  /\ sent' = Append(sent, IdFrame("next", id))
  /\ event' = IdSendEvent("next", id)
  /\ UNCHANGED <<queue, completedIds, terminalHanded>>

next(id) ==
  /\ SendFrame
  /\ SenderSend(IdFrame("next", id))
  /\ event' = IdSendEvent("next", id)
  /\ UNCHANGED <<completedIds, terminalHanded>>

\* a terminal send that the completion guard lets through
Terminal(type, id) ==
  /\ completedIds' = completedIds \cup {id}
  /\ SenderSend(IdFrame(type, id))
  /\ terminalHanded' = [terminalHanded EXCEPT ![id] = @ + 1]

\* a terminal send that the completion guard stops
Suppressed ==
  UNCHANGED <<completedIds, senderVars, terminalHanded>>

error_unrecorded(id) ==
  /\ SendFrame
  /\ SenderSend(IdFrame("error", id))
  /\ terminalHanded' = [terminalHanded EXCEPT ![id] = @ + 1]
  /\ event' = [op |-> "error", id |-> id, handed |-> TRUE, raised |-> FALSE]
  /\ UNCHANGED completedIds

error(id) ==
  /\ SendFrame
  /\ IF id \notin completedIds THEN Terminal("error", id) ELSE Suppressed
  /\ event' = TerminalEvent("error", id)

complete_unguarded(id) ==
  /\ SendFrame
  /\ Terminal("complete", id)
  /\ event' = [op |-> "complete", id |-> id, handed |-> TRUE, raised |-> FALSE]

complete(id) ==
  /\ SendFrame
  /\ IF id \notin completedIds THEN Terminal("complete", id) ELSE Suppressed
  /\ event' = TerminalEvent("complete", id)

\* --------------------------------------------------------- listener registry
UserListener(type) == [type |-> type, kind |-> "user"]
SubListener(type, s) == [type |-> type, kind |-> "sub", sub |-> s]

\* the three bus listeners a subscription owns
SubListeners(s) == <<SubListener("next", s), SubListener("error", s),
                     SubListener("complete", s)>>

\* the listeners left after removeEventListener of `gone`
Without(ls, gone) == SelectSeq(ls, LAMBDA l : l \notin gone)

subscribe(callbacks) ==
  LET id == nSubs + 1 IN
  /\ CallerOp
  /\ cbs' = Append(cbs, callbacks)
  /\ listeners' = listeners \o SubListeners(id)
  /\ closeListeners' = closeListeners \cup {id}
  /\ attached' = TRUE
  /\ SenderSend(IdFrame("subscribe", id))
  /\ event' = IdSendEvent("subscribe", id)
  /\ UNCHANGED <<readyState, established, completedIds, slots, inboundVars,
                 terminalHanded>>

\* what a registry operation of the caller leaves alone
CallerStep ==
  /\ CallerOp
  /\ UNCHANGED <<readyState, established, completedIds, closeListeners, cbs,
                 senderVars, inboundVars, terminalHanded>>

addEventListener(type) ==
  /\ listeners' = IF UserListener(type) \in Range(listeners)
                  THEN listeners
                  ELSE Append(listeners, UserListener(type))
  /\ attached' = TRUE
  /\ event' = [op |-> "addEventListener"]
  /\ UNCHANGED slots
  /\ CallerStep

removeEventListener(type) ==
  /\ UserListener(type) \in Range(listeners)
  /\ listeners' = Without(listeners, {UserListener(type)})
  /\ event' = [op |-> "removeEventListener"]
  /\ UNCHANGED <<attached, slots>>
  /\ CallerStep

\* ws.onping = handler (and the like), and ws.onping = null
assignHandler(type) ==
  /\ type \notin slots
  /\ slots' = slots \cup {type}
  /\ event' = [op |-> "assignHandler"]
  /\ UNCHANGED <<listeners, attached>>
  /\ CallerStep

clearHandler(type) ==
  /\ type \in slots
  /\ slots' = slots \ {type}
  /\ event' = [op |-> "clearHandler"]
  /\ UNCHANGED <<listeners, attached>>
  /\ CallerStep

\* ------------------------------------------------------------- the socket
TransportStep ==
  /\ invoked' = <<>>
  /\ UNCHANGED <<completedIds, attached, slots, cbs, nOps,
                 inboundVars, terminalHanded>>

\* the socket opens: the Sender flushes its queue in insertion order
socketOpen ==
  /\ readyState = "CONNECTING"
  /\ readyState' = "OPEN"
  /\ established' = TRUE
  /\ sent' = sent \o queue
  /\ queue' = <<>>
  /\ event' = [op |-> "open"]
  /\ UNCHANGED <<listeners, closeListeners>>
  /\ TransportStep

\* the closing handshake starts
socketClosing ==
  /\ readyState \in {"CONNECTING", "OPEN"}
  /\ readyState' = "CLOSING"
  /\ event' = [op |-> "closing"]
  /\ UNCHANGED <<established, listeners, closeListeners, queue, sent>>
  /\ TransportStep

closeHandler_partial(ss) ==
  Without(listeners, UNION {{SubListener("next", s), SubListener("error", s)} : s \in ss})

\* the listeners left after the closeHandler of each subscription in `ss` ran
closeHandler(ss) ==
  Without(listeners, UNION {Range(SubListeners(s)) : s \in ss})

socketClose_reset ==
  /\ readyState # "CLOSED"
  /\ readyState' = "CLOSED"
  /\ listeners' = closeHandler(closeListeners)
  /\ closeListeners' = {}
  /\ completedIds' = {}
  /\ event' = [op |-> "close"]
  /\ invoked' = <<>>
  /\ UNCHANGED <<established, queue, sent, attached, slots, cbs, nOps,
                 inboundVars, terminalHanded>>

\* the socket's "close" event: every closeHandler on it runs, once
socketClose ==
  /\ readyState # "CLOSED"
  /\ readyState' = "CLOSED"
  /\ listeners' = closeHandler(closeListeners)
  /\ closeListeners' = {}
  /\ event' = [op |-> "close"]
  /\ UNCHANGED <<established, queue, sent>>
  /\ TransportStep

\* ------------------------------------------------------------ Message Codec
\* what the socket can deliver: text that is not JSON, JSON with an unrecognized
\* type, an identified variant without its id, and the well-formed frames
RawFrames ==
  {[json |-> FALSE]}
    \cup {[json |-> TRUE, type |-> t] : t \in MessageTypes \cup {"bogus"}}
    \cup {[json |-> TRUE, type |-> t, id |-> i] : t \in IdTypes, i \in KnownIds}

\* parseMessage: the typed message, or the decode failure
parseMessage(raw) ==
  IF ~raw.json THEN [ok |-> FALSE, error |-> "Invalid JSON"]
  ELSE IF raw.type \notin MessageTypes THEN [ok |-> FALSE, error |-> "Unknown type"]
  ELSE IF raw.type \in IdTypes
    THEN IF "id" \in DOMAIN raw
         THEN [ok |-> TRUE, message |-> [type |-> raw.type, id |-> raw.id]]
         ELSE [ok |-> FALSE, error |-> "Missing id"]
    ELSE [ok |-> TRUE, message |-> [type |-> raw.type]]

\* ------------------------------------------------- subscription handlers
\* whether the handler calls the caller's callback for this message
nextHandler_any(s, msg) == "next" \in cbs[s]
nextHandler(s, msg) == msg.id = s /\ "next" \in cbs[s]
errorHandler(s, msg) == msg.id = s /\ "error" \in cbs[s]
completeHandler(s, msg) == msg.id = s /\ "complete" \in cbs[s]

\* the record of one handler invocation made for inbound message number m
ListenerInv(type, m) == [kind |-> "listener", type |-> type, m |-> m]
CallbackInv(type, s, m) == [kind |-> "callback", type |-> type, sub |-> s, m |-> m]
SlotInv(type, m) == [kind |-> "slot", type |-> type, m |-> m]

\* whether bus listener l, run for an event of its type, calls a handler of the caller
Calls(l, msg) ==
  \/ l.kind = "user"
  \/ /\ l.kind = "sub"
     /\ CASE l.type = "next" -> nextHandler(l.sub, msg)
          [] l.type = "error" -> errorHandler(l.sub, msg)
          [] l.type = "complete" -> completeHandler(l.sub, msg)

\* #eventTarget.dispatchEvent: the listeners of the event's type run in registration
\* order; the result is the caller's handlers they invoke
dispatchEvent(type, msg, m) ==
  LET hit == SelectSeq(listeners, LAMBDA l : l.type = type /\ Calls(l, msg))
  IN [i \in 1 .. Len(hit) |->
        IF hit[i].kind = "user" THEN ListenerInv(type, m)
        ELSE CallbackInv(type, hit[i].sub, m)]

\* this.on<type>?.(event)
slotHandler(type, m) == IF type \in slots THEN <<SlotInv(type, m)>> ELSE <<>>

SlotFirst(bus, slot) == slot \o bus

\* a dispatcher entry dispatches on the bus, then calls the single-slot handler
DispatchOrder(bus, slot) == bus \o slot

\* the subscriptions whose completedHandler is on the bus: each runs for every
\* "complete" event, whatever its id, and being { once: true } leaves the bus
completedHandlers ==
  {l.sub : l \in {x \in Range(listeners) : x.kind = "sub" /\ x.type = "complete"}}

\* the listeners left when the completedHandlers of `fired` ran; one whose
\* onComplete callback is still suspended has not reached its removeEventListener
completedHandler(fired, suspended) ==
  Without(listeners,
          {SubListener("complete", s) : s \in fired}
            \cup {SubListener("next", s) : s \in fired \ suspended}
            \cup {SubListener("error", s) : s \in fired \ suspended})

Invoke_deferred(inv, fired, m) ==
  /\ invoked' = <<>>
  /\ pending' = pending \cup Range(inv)
  /\ listeners' = completedHandler(fired, {})
  /\ queue' = Dispose(queue, fired)
  /\ UNCHANGED onCompleteCalls

\* the handlers of `inv` are invoked; any of them may return an unsettled promise
Invoke(inv, fired, m) ==
  \E A \in SUBSET Range(inv) :
    /\ invoked' = inv
    /\ onCompleteCalls' =
         [s \in SubIds |-> onCompleteCalls[s]
            + Cardinality({i \in 1 .. Len(inv) : inv[i] = CallbackInv("complete", s, m)})]
    /\ pending' = pending \cup A
    /\ listeners' = completedHandler(fired, {s \in fired :
                                               CallbackInv("complete", s, m) \in A})
    /\ queue' = Dispose(queue, fired)

Deliver(type, msg, m) ==
  Invoke(DispatchOrder(dispatchEvent(type, msg, m), slotHandler(type, m)),
         IF type = "complete" THEN completedHandlers ELSE {}, m)

\* a message the blocklist stops
Blocked ==
  /\ invoked' = <<>>
  /\ UNCHANGED <<completedIds, completeEvents, onCompleteCalls, pending, listeners,
                 queue>>

\* ------------------------------------------------------ message dispatcher
onConnectionInit(msg, m) ==
  Deliver("connectioninit", msg, m) /\ UNCHANGED <<completedIds, completeEvents>>

onConnectionAck(msg, m) ==
  Deliver("connectionack", msg, m) /\ UNCHANGED <<completedIds, completeEvents>>

onPing(msg, m) ==
  Deliver("ping", msg, m) /\ UNCHANGED <<completedIds, completeEvents>>

onPong(msg, m) ==
  Deliver("pong", msg, m) /\ UNCHANGED <<completedIds, completeEvents>>

onSubscribe(msg, m) ==
  Deliver("subscribe", msg, m) /\ UNCHANGED <<completedIds, completeEvents>>

onNext_unguarded(msg, m) ==
  Deliver("next", msg, m) /\ UNCHANGED <<completedIds, completeEvents>>

onNext(msg, m) ==
  IF msg.id \notin completedIds
  THEN Deliver("next", msg, m) /\ UNCHANGED <<completedIds, completeEvents>>
  ELSE Blocked

onError_terminal(msg, m) ==
  IF msg.id \notin completedIds
  THEN /\ Deliver("error", msg, m)
       /\ completedIds' = completedIds \cup {msg.id}
       /\ UNCHANGED completeEvents
  ELSE Blocked

onError(msg, m) ==
  IF msg.id \notin completedIds
  THEN Deliver("error", msg, m) /\ UNCHANGED <<completedIds, completeEvents>>
  ELSE Blocked

onComplete_unguarded(msg, m) ==
  /\ completedIds' = completedIds \cup {msg.id}
  /\ completeEvents' = [completeEvents EXCEPT ![msg.id] = @ + 1]
  /\ Deliver("complete", msg, m)

onComplete(msg, m) ==
  IF msg.id \notin completedIds
  THEN /\ completedIds' = completedIds \cup {msg.id}
       /\ completeEvents' = [completeEvents EXCEPT ![msg.id] = @ + 1]
       /\ Deliver("complete", msg, m)
  ELSE Blocked

onUnknown_silent(m) ==
  Blocked

onUnknown(m) ==
  /\ Invoke(dispatchEvent(UNKNOWN, [type |-> UNKNOWN], m), {}, m)
  /\ UNCHANGED <<completedIds, completeEvents>>

\* #messageHandler: decode, then the dispatcher entry of the message's type
messageHandler(raw, m) ==
  LET parsed == parseMessage(raw) IN
  IF ~parsed.ok THEN onUnknown(m)
  ELSE LET message == parsed.message IN
       CASE message.type = "connection_init" -> onConnectionInit(message, m)
         [] message.type = "connection_ack" -> onConnectionAck(message, m)
         [] message.type = "ping" -> onPing(message, m)
         [] message.type = "pong" -> onPong(message, m)
         [] message.type = "subscribe" -> onSubscribe(message, m)
         [] message.type = "next" -> onNext(message, m)
         [] message.type = "error" -> onError(message, m)
         [] message.type = "complete" -> onComplete(message, m)

\* the socket delivers a message: its "message" listeners run, #messageHandler if
\* an addEventListener call put it there
socketMessage(raw) ==
  /\ established
  /\ readyState \in {"OPEN", "CLOSING"}
  /\ nRecv < MaxRecv
  /\ nRecv' = nRecv + 1
  /\ IF attached
     THEN messageHandler(raw, nRecv + 1)
     ELSE /\ invoked' = <<>>
          /\ UNCHANGED <<completedIds, completeEvents, onCompleteCalls, pending,
                         listeners, queue>>
  /\ event' = LET parsed == parseMessage(raw) IN
              IF parsed.ok THEN [op |-> "message", ok |-> TRUE, data |-> parsed.message]
              ELSE [op |-> "message", ok |-> FALSE, data |-> parsed.error]
  /\ UNCHANGED <<readyState, established, closeListeners, attached, slots, cbs,
                 sent, nOps, terminalHanded>>

\* a suspended handler settles; a completedHandler then goes on to remove the
\* subscription's next and error listeners
settle(p) ==
  /\ p \in pending
  /\ pending' = pending \ {p}
  /\ listeners' = IF p.kind = "callback" /\ p.type = "complete"
                  THEN Without(listeners, {SubListener("next", p.sub),
                                           SubListener("error", p.sub)})
                  ELSE listeners
  /\ event' = [op |-> "settle"]
  /\ invoked' = <<>>
  /\ UNCHANGED <<readyState, established, completedIds, closeListeners, attached,
                 slots, cbs, senderVars, nOps, nRecv, completeEvents,
                 onCompleteCalls, terminalHanded>>

\* ------------------------------------------------------------ specification
Init ==
  /\ readyState \in {"CONNECTING", "OPEN"}
  /\ established = (readyState = "OPEN")
  /\ completedIds = {}
  /\ listeners = <<>>
  /\ closeListeners = {}
  /\ attached = FALSE
  /\ slots = {}
  /\ cbs = <<>>
  /\ queue = <<>>
  /\ sent = <<>>
  /\ nOps = 0
  /\ nRecv = 0
  /\ pending = {}
  /\ invoked = <<>>
  /\ event = [op |-> "new"]
  /\ completeEvents = [i \in AllIds |-> 0]
  /\ onCompleteCalls = [s \in SubIds |-> 0]
  /\ terminalHanded = [i \in AllIds |-> 0]

Next ==
  \/ connectionInit
  \/ connectionAck
  \/ ping
  \/ pong
  \/ \E callbacks \in CallbackSets : subscribe(callbacks)
  \/ \E id \in KnownIds : next(id)
  \/ \E id \in KnownIds : error(id)
  \/ \E id \in KnownIds : complete(id)
  \/ \E type \in EventNames \cup {UNKNOWN} : addEventListener(type)
  \/ \E type \in EventNames \cup {UNKNOWN} : removeEventListener(type)
  \/ \E type \in EventNames : assignHandler(type)
  \/ \E type \in EventNames : clearHandler(type)
  \/ socketOpen
  \/ socketClosing
  \/ socketClose
  \/ \E raw \in RawFrames : socketMessage(raw)
  \/ \E p \in pending : settle(p)

Spec == Init /\ [][Next]_vars

\* ------------------------------------------------------------------ claims
\* the last step was the arrival of a well-formed message of this type
Arrived(type) == event.op = "message" /\ event.ok /\ event.data.type = type

\* C1: once a Complete frame for an identifier has been dispatched, a later
\* inbound Next or Error frame for that identifier invokes no handler at all:
\* no subscription callback, no single-slot handler, no bus listener.
C1_NoDispatchAfterComplete ==
  ((Arrived("next") \/ Arrived("error")) /\ completeEvents[event.data.id] > 0)
    => invoked = <<>>

\* a Next frame for a completed subscription arrived while the asynchronous
\* onComplete callback is still suspended and the next listener still attached
C1_Witness ==
  /\ Arrived("next")
  /\ event.data.id \in DOMAIN cbs
  /\ completeEvents[event.data.id] > 0
  /\ "next" \in cbs[event.data.id]
  /\ SubListener("next", event.data.id) \in Range(listeners)
  /\ \E p \in pending : p.kind = "callback" /\ p.type = "complete"
                          /\ p.sub = event.data.id

\* C2: for every identifier at most one terminal frame (Error or Complete) is
\* handed to the Sender: an identifier is in the completion guard exactly when
\* either one terminal frame was handed for it or its remote Complete was
\* dispatched, never both and never two frames.
C2_OneTerminalFrame ==
  \A id \in AllIds :
    terminalHanded[id] + completeEvents[id] = IF id \in completedIds THEN 1 ELSE 0

\* a second local error/complete for an identifier was just made and handed nothing
C2_Witness ==
  /\ event.op \in {"error", "complete"}
  /\ ~event.handed
  /\ terminalHanded[event.id] = 1

\* C3: the onComplete callback of a subscription is called at most once, and the
\* "complete" event is dispatched at most once per identifier.
C3_CompleteOnce ==
  /\ \A s \in SubIds : onCompleteCalls[s] <= 1
  /\ \A id \in AllIds : completeEvents[id] <= 1

\* the peer repeated the Complete frame of a subscription whose onComplete ran
C3_Witness ==
  /\ Arrived("complete")
  /\ event.data.id \in DOMAIN cbs
  /\ onCompleteCalls[event.data.id] = 1
  /\ invoked = <<>>

\* the step is the arrival of well-formed message `data`
Arrives(data) ==
  nRecv' = nRecv + 1 /\ event'.op = "message" /\ event'.ok /\ event'.data = data

\* how often handler invocation `h` occurs in what the step invoked
Times(h) == Cardinality({i \in 1 .. Len(invoked') : invoked'[i] = h})

\* C4: for a subscription X made with an onComplete callback, not in the
\* completion guard, on a socket that has not closed, the arrival of a Complete
\* frame for X calls onComplete exactly once, whatever frames for other
\* identifiers arrived before.
C4_CompleteCallsOnComplete ==
  [][\A x \in DOMAIN cbs :
       ( /\ "complete" \in cbs[x]
         /\ x \notin completedIds
         /\ readyState # "CLOSED"
         /\ Arrives([type |-> "complete", id |-> x]) )
       => Times(CallbackInv("complete", x, nRecv')) = 1]_vars

\* C5: with two subscriptions X # Y, a Complete frame for Y leaves the next and
\* error listeners of X attached.
C5_OtherCompleteKeepsListeners ==
  [][\A x, y \in DOMAIN cbs :
       (x # y /\ Arrives([type |-> "complete", id |-> y]))
       => \A l \in {SubListener("next", x), SubListener("error", x)} :
            l \in Range(listeners) => l \in Range(listeners')]_vars

\* C6: a well-formed inbound message (its id, if it is a next, error or complete,
\* not in the completion guard) whose single-slot handler is assigned invokes that
\* handler once, whether or not addEventListener or subscribe was ever called.
C6_SlotAlwaysInvoked ==
  [][( /\ nRecv' = nRecv + 1
       /\ event'.op = "message"
       /\ event'.ok
       /\ EventName[event'.data.type] \in slots
       /\ (event'.data.type \in {"next", "error", "complete"}
            => event'.data.id \notin completedIds) )
     => Times(SlotInv(EventName[event'.data.type], nRecv')) = 1]_vars

\* C7 as stated: the single-slot handler is invoked before every bus listener.
C7_SlotBeforeBus ==
  \A i, j \in 1 .. Len(invoked) :
    (invoked[i].kind = "slot" /\ invoked[j].kind # "slot") => i < j

\* C7 amended: for a dispatched message the bus listeners of its variant (the
\* caller's listeners and the subscription handlers) are invoked before the
\* single-slot handler of the variant.
C7_BusBeforeSlot ==
  \A i, j \in 1 .. Len(invoked) :
    (invoked[i].kind = "slot" /\ invoked[j].kind # "slot") => j < i

\* a message was dispatched to a bus listener and to the single-slot handler
C7_Witness ==
  /\ event.op = "message"
  /\ \E i, j \in 1 .. Len(invoked) : invoked[i].kind = "slot" /\ invoked[j].kind # "slot"

\* C8: handlers of two different inbound messages are never in progress at once.
C8_Serialized ==
  \A p, q \in pending : p.m = q.m

\* ------------------------------------------------------------ sender claims
SendOps == {"connectionInit", "connectionAck", "ping", "pong", "subscribe", "next",
            "error", "complete"}
WireType == [connectionInit |-> "connection_init", connectionAck |-> "connection_ack",
             ping |-> "ping", pong |-> "pong", subscribe |-> "subscribe",
             next |-> "next", error |-> "error", complete |-> "complete"]

\* the step is a send operation that hands a frame to the Sender
Hands ==
  /\ nOps' = nOps + 1
  /\ event'.op \in SendOps
  /\ event'.op \in {"error", "complete"} => event'.handed

\* the frame the operation of the step is to send
HandedFrame ==
  IF event'.op \in {"connectionInit", "connectionAck", "ping", "pong"}
  THEN [type |-> WireType[event'.op]]
  ELSE [type |-> WireType[event'.op], id |-> event'.id]

\* C9: nothing is transmitted while the socket is connecting; each frame sent
\* while connecting joins the queue behind the earlier ones and stays there; when
\* the socket opens exactly the queued frames are transmitted, in the order of
\* the send calls; afterwards only newly sent frames are transmitted.
C9_Step ==
  /\ readyState' = "CONNECTING" => sent' = <<>>
  /\ (readyState = "CONNECTING" /\ readyState' = "CONNECTING")
       => queue' = IF Hands THEN Append(queue, HandedFrame) ELSE queue
  /\ (readyState = "CONNECTING" /\ readyState' = "OPEN")
       => (sent' = queue /\ queue' = <<>>)
  /\ readyState = "OPEN"
       => sent' = IF Hands THEN Append(sent, HandedFrame) ELSE sent

C10_Step ==
  readyState \in {"CLOSING", "CLOSED"}
    => /\ sent' = sent
       /\ queue' = queue
       /\ readyState' \in {"CLOSING", "CLOSED"}
       /\ (nOps' = nOps + 1 /\ event'.op \in SendOps) => ~event'.raised

C10_DiscardWhenClosed == [][C10_Step]_vars

\* a send operation that reached the Sender was just made on a closing or closed
\* socket
C10_Witness ==
  /\ readyState \in {"CLOSING", "CLOSED"}
  /\ event.op \in SendOps
  /\ event.op \in {"error", "complete"} => event.handed

\* ------------------------------------------------------------ later claims
\* the step is the arrival of a payload that fails to decode
ArrivesUndecodable ==
  nRecv' = nRecv + 1 /\ event'.op = "message" /\ ~event'.ok

\* C11: a payload that fails to decode is dispatched as one "unknown" event that
\* carries the failure description: each "unknown" listener on the bus runs once,
\* no other handler runs, and the completion guard, the listener registry, the
\* single-slot handlers and the pending-send queue are unchanged.
C11_Step ==
  ArrivesUndecodable
    => /\ event'.data \in {"Invalid JSON", "Unknown type", "Missing id"}
       /\ invoked' = IF UserListener(UNKNOWN) \in Range(listeners)
                     THEN <<ListenerInv(UNKNOWN, nRecv')>>
                     ELSE <<>>
       /\ UNCHANGED <<completedIds, listeners, closeListeners, slots, queue, sent,
                      completeEvents, onCompleteCalls>>

C11_UnknownOnly == [][C11_Step]_vars

\* an undecodable payload reached an "unknown" listener of a transport that also
\* has a subscription
C11_Witness ==
  /\ event.op = "message"
  /\ ~event.ok
  /\ invoked = <<ListenerInv(UNKNOWN, nRecv)>>
  /\ SubListener("next", 1) \in Range(listeners)

\* the last step was the arrival of an Error frame for x that called x's onError
ErrorCalled(x) ==
  /\ Arrived("error")
  /\ event.data.id = x
  /\ CallbackInv("error", x, nRecv) \in Range(invoked)

\* C12: an inbound Error frame does not end a subscription: the step in which it
\* arrives changes neither the completion guard nor the listener registry, and
\* when it called onError, the next frame for the same identifier still calls its
\* callback once: onNext for a Next, onError again for an Error, onComplete for a
\* Complete.
C12_Step ==
  /\ \A x \in AllIds :
       Arrives([type |-> "error", id |-> x])
         => UNCHANGED <<completedIds, listeners, closeListeners>>
  /\ \A x \in DOMAIN cbs : \A t \in {"next", "error", "complete"} :
       (ErrorCalled(x) /\ Arrives([type |-> t, id |-> x]))
         => Times(CallbackInv(t, x, nRecv')) = 1

C12_ErrorKeepsActive == [][C12_Step]_vars

\* a second Error frame called onError again while the onError call made for the
\* first Error frame is still suspended
C12_Witness ==
  /\ Arrived("error")
  /\ nRecv = 2
  /\ CallbackInv("error", event.data.id, 2) \in Range(invoked)
  /\ CallbackInv("error", event.data.id, 1) \in pending

\* C13: the close of the socket detaches the next, error and complete listeners
\* of every subscription made before it and calls no callback; once the socket is
\* closed no step calls a subscription callback.
C13_Step ==
  /\ (readyState # "CLOSED" /\ readyState' = "CLOSED")
       => /\ invoked' = <<>>
          /\ onCompleteCalls' = onCompleteCalls
          /\ \A s \in DOMAIN cbs :
               Range(SubListeners(s)) \cap Range(listeners') = {}
  /\ readyState = "CLOSED"
       => \A i \in 1 .. Len(invoked') : invoked'[i].kind # "callback"

C13_CloseDetaches == [][C13_Step]_vars

\* the socket just closed under a subscription that had callbacks and had not
\* completed
C13_Witness ==
  /\ event.op = "close"
  /\ cbs # <<>>
  /\ "complete" \in cbs[1]
  /\ 1 \notin completedIds
  /\ established

\* C14: when the socket opens, the Subscribe frame of an identifier whose
\* Complete frame was queued behind it (subscribe, then complete(id), both while
\* connecting) is not transmitted.
C14_Step ==
  (readyState = "CONNECTING" /\ readyState' = "OPEN")
    => \A id \in DOMAIN cbs :
         IdFrame("complete", id) \in Range(queue)
           => IdFrame("subscribe", id) \notin Range(sent')

C14_LocalCompleteCancelsSubscribe == [][C14_Step]_vars

\* C15: after a local error(id) or complete(id) call, an inbound Next, Error or
\* Complete frame for id invokes nothing: no subscription callback, no single-slot
\* handler and no bus listener.
C15_LocalTerminalBlocksInbound ==
  ( /\ Arrived("next") \/ Arrived("error") \/ Arrived("complete")
    /\ terminalHanded[event.data.id] > 0 )
    => invoked = <<>>

\* the peer's Complete frame came back for a locally terminated subscription that
\* has an onComplete callback and still has its complete listener on the bus
C15_Witness ==
  /\ Arrived("complete")
  /\ event.data.id \in DOMAIN cbs
  /\ terminalHanded[event.data.id] = 1
  /\ "complete" \in cbs[event.data.id]
  /\ SubListener("complete", event.data.id) \in Range(listeners)

\* C16: when the peer's Complete frame for an identifier arrives after a local
\* complete(id) whose frame was transmitted, the subscription's next and error
\* listeners are off the bus at the latest after that step.
C16_Step ==
  \A id \in DOMAIN cbs :
    ( /\ IdFrame("complete", id) \in Range(sent)
      /\ Arrives([type |-> "complete", id |-> id]) )
      => /\ SubListener("next", id) \notin Range(listeners')
         /\ SubListener("error", id) \notin Range(listeners')

C16_LocalCompleteDetaches == [][C16_Step]_vars

\* C17: the completion guard only grows, and an identifier enters it only in a
\* local error(id) or complete(id) call or in the step that dispatches an inbound
\* Complete frame for it; no other step changes it.
C17_Step ==
  /\ completedIds \subseteq completedIds'
  /\ \A id \in completedIds' \ completedIds :
       \/ /\ nOps' = nOps + 1
          /\ event'.op \in {"error", "complete"}
          /\ event'.id = id
       \/ /\ Arrives([type |-> "complete", id |-> id])
          /\ completeEvents'[id] = completeEvents[id] + 1

C17_GuardOnlyGrows == [][C17_Step]_vars

\* the socket closed with two identifiers in the guard, one put there by a local
\* call and one by an inbound Complete frame
C17_Witness ==
  /\ event.op = "close"
  /\ \E a, b \in completedIds :
       a # b /\ terminalHanded[a] = 1 /\ completeEvents[b] = 1

\* C18: a subscription callback is invoked only by an inbound frame that carries
\* the subscription's own identifier and the callback's own variant: onNext by a
\* Next frame, onError by an Error frame, onComplete by a Complete frame.
C18_CallbacksScopedById ==
  \A i \in 1 .. Len(invoked) :
    invoked[i].kind = "callback"
      => /\ Arrived(invoked[i].type)
         /\ event.data.id = invoked[i].sub

\* with two subscriptions listening, both with callbacks, a Next frame for the
\* first called the first one's onNext and nothing else
C18_Witness ==
  /\ Arrived("next")
  /\ event.data.id = 1
  /\ Len(cbs) = 2
  /\ "next" \in cbs[2]
  /\ SubListener("next", 2) \in Range(listeners)
  /\ invoked = <<CallbackInv("next", 1, nRecv)>>

\* C19: the onNext call for a Next frame of an active subscription starts in the
\* step in which the frame arrives, hence before any later frame arrives, also
\* while an earlier asynchronous onNext is still suspended; no step starts a
\* handler for an earlier message, and only handlers started in a step can be
\* left suspended by it.
C19_Step ==
  /\ \A x \in DOMAIN cbs :
       ( /\ Arrives([type |-> "next", id |-> x])
         /\ x \notin completedIds
         /\ "next" \in cbs[x]
         /\ SubListener("next", x) \in Range(listeners) )
         => Times(CallbackInv("next", x, nRecv')) = 1
  /\ \A i \in 1 .. Len(invoked') : invoked'[i].m = nRecv' /\ nRecv' = nRecv + 1
  /\ (pending' \ pending) \subseteq Range(invoked')

C19_CallbacksInArrivalOrder == [][C19_Step]_vars

\* the second Next frame of a subscription called onNext while the onNext call
\* made for the first is still suspended
C19_Witness ==
  /\ Arrived("next")
  /\ nRecv = 2
  /\ invoked = <<CallbackInv("next", event.data.id, 2)>>
  /\ CallbackInv("next", event.data.id, 1) \in pending

====
